---------------------------- MODULE Spec2Model ----------------------------
(***************************************************************************)
(* A model of the OpenHue Raycast extension's bridge client:               *)
(*   - credential resolution          (src/src/api/client.ts)              *)
(*   - the HTTPS transport hueRequest (src/src/api/client.ts)              *)
(*   - the pairing request            (src/src/api/auth.ts)                *)
(*   - the fetch adapter              (src/src/api/fetch-adapter.ts)       *)
(*   - the resource accessors         (src/src/api/lights.ts, rooms.ts,    *)
(*                                     scenes.ts, src/unnamed/part_000)    *)
(*   - scene grouping                 (scenes.ts, src/unnamed/part_000)    *)
(*   - the lazily created singletons  (fetch-adapter.ts, lights.ts,        *)
(*                                     rooms.ts, src/unnamed/part_000)     *)
(*   - the light action handlers      (src/src/lights.tsx)                 *)
(***************************************************************************)
EXTENDS Integers, Sequences, FiniteSets, TLC

VARIABLES
    prefs,        \* the extension preferences: [bridgeIP, applicationKey]
    file,         \* the content of ~/.openhue/config.yaml
    credResult,   \* what the last getCredentials() call gave its caller
    handles,      \* the memoized singletons that are set (module-level lets)
    call,         \* the operation in progress, or NoCall
    req,          \* the HTTPS request built by that operation, or NoReq
    sent,         \* how many HTTPS requests that operation has sent
    sock,         \* the request's connection: "none", "open", "destroyed", "closed"
    hangup,       \* an 'error' event is queued behind req.destroy()
    timedOut,     \* the timeout callback ran while the promise was pending
    promise,      \* the promise returned by hueRequest / authenticate
    settles,      \* how many times that promise changed state
    res,          \* the response whose 'end' event settled the promise, or NoRes
    late,         \* the last event handled after the promise settled: "", "error", "end"
    adapterResp,  \* the Response the fetch adapter gave the generated client
    result,       \* what the operation gave its caller
    scenes,       \* the scene list handed to groupScenesByRoom
    grouped,      \* the Map groupScenesByRoom returned
    procs,        \* the accessor calls that run side by side, each at its await
    instances,    \* per module-level singleton: the instance stored, how many were built
    ui            \* the run of a light action handler of the lights list

vars == <<prefs, file, credResult, handles, call, req, sent, sock, hangup, timedOut,
          promise, settles, res, late, adapterResp, result, scenes, grouped,
          procs, instances, ui>>

credVars == <<prefs, file, credResult>>
reqVars  == <<handles, call, req, sent, sock, hangup, timedOut, promise, settles,
              res, late, adapterResp, result>>
sceneVars == <<scenes, grouped>>
lazyVars == <<procs, instances>>
uiVars == <<ui>>

-----------------------------------------------------------------------------
(* JavaScript values *)

\* undefined: an absent property, an unset preference
NoVal == "<undefined>"
\* null
Null == "<null>"

\* JS truthiness of a string-or-absent value: undefined, null and "" are falsy
Truthy(v) == v \notin {NoVal, Null, ""}

Max(a, b) == IF a >= b THEN a ELSE b
Min(a, b) == IF a <= b THEN a ELSE b

-----------------------------------------------------------------------------
(* Credential resolution: src/src/api/client.ts *)

\* what a preference field can hold: unset, empty text, a value
PrefIPs  == {NoVal, "", "10.0.0.1"}
PrefKeys == {NoVal, "", "prefkey"}
Preferences == [bridgeIP : PrefIPs, applicationKey : PrefKeys]

\* what the config file's `bridge` and `key` fields can hold
FileIPs  == {NoVal, "", "10.0.0.5"}
FileKeys == {NoVal, "", "abc123"}

\* The config file: absent, present but unreadable (readFileSync throws),
\* empty (parseYaml gives null), malformed YAML (parseYaml throws), a YAML
\* scalar (parseYaml gives a string, which has no bridge/key property), or a
\* mapping with optional bridge and key.
ConfigFiles ==
    { [kind |-> k, bridge |-> NoVal, key |-> NoVal] :
        k \in {"absent", "unreadable", "empty", "malformed", "scalar"} }
    \cup [kind : {"mapping"}, bridge : FileIPs, key : FileKeys]

\* What credential resolution gives its caller: a {bridgeIP, applicationKey}
\* pair, null, or (tag "throw") an exception.
Credentials(ip, key) == [tag |-> "creds", bridgeIP |-> ip, applicationKey |-> key]
NullCredentials == [tag |-> "null", bridgeIP |-> NoVal, applicationKey |-> NoVal]
ThrownCredentials == [tag |-> "throw", bridgeIP |-> NoVal, applicationKey |-> NoVal]
NotCalled == [tag |-> "not called", bridgeIP |-> NoVal, applicationKey |-> NoVal]

\* The body of loadOpenHueConfig's try block; tag "throw" when it throws.
loadOpenHueConfigTry(f) ==
    IF f.kind = "absent" THEN NullCredentials             \* !existsSync
    ELSE IF f.kind = "unreadable" THEN ThrownCredentials  \* readFileSync throws
    ELSE IF f.kind = "malformed" THEN ThrownCredentials   \* parseYaml throws
    ELSE IF f.kind = "empty" THEN ThrownCredentials       \* null.bridge: TypeError
    ELSE IF Truthy(f.bridge) /\ Truthy(f.key)
         THEN Credentials(f.bridge, f.key)
    ELSE NullCredentials

\* a loadOpenHueConfig without its catch: the exception reaches the caller
loadOpenHueConfigNoCatch(f) == loadOpenHueConfigTry(f)

\* loadOpenHueConfig: the try block, and `catch { return null; }`
loadOpenHueConfig(f) ==
    LET t == loadOpenHueConfigTry(f)
    IN  IF t.tag = "throw" THEN NullCredentials ELSE t

\* a getCredentials that fills each field from whichever source has it
getCredentialsMixed(p, f) ==
    LET ip  == IF Truthy(p.bridgeIP) THEN p.bridgeIP ELSE f.bridge
        key == IF Truthy(p.applicationKey) THEN p.applicationKey ELSE f.key
    IN  IF Truthy(ip) /\ Truthy(key) /\ f.kind \in {"absent", "scalar", "mapping"}
        THEN Credentials(ip, key)
        ELSE NullCredentials

\* getCredentials: the preferences if both are set, else the config file
getCredentials(p, f) ==
    IF Truthy(p.bridgeIP) /\ Truthy(p.applicationKey)
    THEN Credentials(p.bridgeIP, p.applicationKey)
    ELSE loadOpenHueConfig(f)

\* A call of getCredentials() by the UI (LightsCommand).
GetCredentials ==
    /\ credResult' = getCredentials(prefs, file)
    /\ UNCHANGED <<prefs, file>>
    /\ UNCHANGED <<reqVars, sceneVars, lazyVars, uiVars>>

\* The user edits the extension preferences.
EditPreferences ==
    /\ \E p \in Preferences : p # prefs /\ prefs' = p
    /\ credResult' = NotCalled
    /\ UNCHANGED file
    /\ UNCHANGED <<reqVars, sceneVars, lazyVars, uiVars>>

\* The user (or the openhue CLI) rewrites the config file.
EditConfigFile ==
    /\ \E f \in ConfigFiles : f # file /\ file' = f
    /\ credResult' = NotCalled
    /\ UNCHANGED prefs
    /\ UNCHANGED <<reqVars, sceneVars, lazyVars, uiVars>>

-----------------------------------------------------------------------------
(* Bounds of the model *)

\* how far beyond each clamp limit the setter inputs reach
Margin == 2
\* the longest `errors` array in a response body
MaxErrors == 2
\* the longest `data` array in a response body
MaxData == 2
\* the longest top-level array in a response body (the pairing response)
MaxArray == 1

SeqsUpTo(S, n) == UNION { [1..k -> S] : k \in 0..n }

-----------------------------------------------------------------------------
(* What the bridge can answer *)

\* HTTP status codes of a completed response
Statuses == {200, 399, 400, 404}

\* An entry of `errors`: an object with a description, or a JSON null.
ErrEntries == {"e1", Null}
\* An element of `data`: a resource, named by its id.
Items == {"r1", "r2"}

\* The first element of a pairing response: {error:{type,description}} or
\* {success:{username}} (errType 0: no error field; username "": no success).
AuthEntries ==
    { [errType |-> 101, description |-> "link button not pressed", username |-> ""],
      [errType |-> 1, description |-> "unauthorized user", username |-> ""],
      [errType |-> 0, description |-> "", username |-> "newkey"] }
NoAuth == [errType |-> 0, description |-> "", username |-> ""]

BodyOf(k, he, e, hd, d, a) ==
    [kind |-> k, hasErrors |-> he, errors |-> e, hasData |-> hd, data |-> d,
     items |-> a]

\* A response body: text that is not JSON, the JSON value null, a JSON object
\* with optional `errors` and `data` arrays, or a JSON array.
Bodies ==
    { BodyOf("text", FALSE, <<>>, FALSE, <<>>, <<>>),
      BodyOf("null", FALSE, <<>>, FALSE, <<>>, <<>>) }
    \cup { BodyOf("object", TRUE, e, FALSE, <<>>, <<>>) : e \in SeqsUpTo(ErrEntries, MaxErrors) }
    \cup { BodyOf("object", FALSE, <<>>, TRUE, d, <<>>) : d \in SeqsUpTo(Items, MaxData) }
    \cup { BodyOf("object", TRUE, <<"e1">>, TRUE, <<"r1">>, <<>>),
           BodyOf("object", TRUE, <<>>, TRUE, <<"r1">>, <<>>),
           BodyOf("object", FALSE, <<>>, FALSE, <<>>, <<>>) }
    \cup { BodyOf("array", FALSE, <<>>, FALSE, <<>>, a) : a \in SeqsUpTo(AuthEntries, MaxArray) }

NoBody == BodyOf("none", FALSE, <<>>, FALSE, <<>>, <<>>)
NoRes == [status |-> 0, body |-> NoBody]

-----------------------------------------------------------------------------
(* The promise returned by hueRequest and by authenticate *)

PromiseOf(st, k, sc, m, e, v) ==
    [state |-> st, kind |-> k, statusCode |-> sc, message |-> m, errors |-> e,
     value |-> v]

NoPromise == PromiseOf("none", "", 0, "", <<>>, NoBody)
Pending   == PromiseOf("pending", "", 0, "", <<>>, NoBody)

\* resolve(v)
Resolved(v) == PromiseOf("fulfilled", "", 0, "", <<>>, v)
\* reject(new HueApiError(message, statusCode, errors)); statusCode 0 and
\* errors <<>> stand for the arguments left out (undefined)
Rejected(k, sc, m, e) == PromiseOf("rejected", k, sc, m, e, NoBody)

\* a promise whose state follows the last resolve/reject call
SettleLast(p, outcome) == outcome

\* resolve/reject on a promise: the first call settles it, later ones do nothing
Settle(p, outcome) == IF p.state = "pending" THEN outcome ELSE p

-----------------------------------------------------------------------------
(* hueRequest: src/src/api/client.ts *)

\* A request path, as its tokens: "/api" is <<"/api">> and
\* "/clip/v2/resource/light" is <<"/clip", "/v2", "/resource", "/light">>.
\* endpoint.startsWith(prefix), with the prefix a sequence of whole tokens.
StartsWith(endpoint, prefix) ==
    /\ Len(endpoint) >= Len(prefix)
    /\ SubSeq(endpoint, 1, Len(prefix)) = prefix

HueRequestTimeoutMs == 15000

\* the timeout hueRequest arms with req.setTimeout
hueRequestTimeout == HueRequestTimeoutMs

\* `if (!ip || !key) { credentials = getCredentials() ... }`: the credentials a
\* hueRequest call uses, or null when none resolve (it then throws).
hueRequestCredentials(optIP, optKey, p, f) ==
    IF ~Truthy(optIP) \/ ~Truthy(optKey)
    THEN getCredentials(p, f)
    ELSE Credentials(optIP, optKey)

\* a header rule that leaves the key out of every request
hueApplicationKeyHeaderNever(key, endpoint) == NoVal

\* The value of the request's hue-application-key header (NoVal: no such
\* header): `if (key && !endpoint.startsWith("/api")) headers[...] = key`.
hueApplicationKeyHeader(key, endpoint) ==
    IF Truthy(key) /\ ~StartsWith(endpoint, <<"/api">>) THEN key ELSE NoVal

NoReq == [via |-> "none", method |-> "", path |-> <<>>, hostname |-> NoVal,
          keyHeader |-> NoVal, body |-> [field |-> "", n |-> 0], timeoutMs |-> 0]
NoJson == [field |-> "", n |-> 0]

\* the https.request hueRequest builds and sends
hueRequestOptions(endpoint, method, body, cr) ==
    [via |-> "hueRequest", method |-> method, path |-> endpoint,
     hostname |-> cr.bridgeIP,
     keyHeader |-> hueApplicationKeyHeader(cr.applicationKey, endpoint),
     body |-> body, timeoutMs |-> hueRequestTimeout]

\* an 'end' handler that reads the body before it looks at the status
hueRequestOnEndBodyFirst(status, body) ==
    IF body.kind = "text"
    THEN Rejected("Parse", status, "Failed to parse", <<>>)
    ELSE IF body.kind = "null"
    THEN Rejected("Parse", status, "Failed to parse", <<>>)
    ELSE IF body.hasErrors /\ Len(body.errors) > 0
    THEN IF body.errors[1] = Null
         THEN Rejected("Parse", status, "Failed to parse", <<>>)
         ELSE Rejected("Api", status, body.errors[1], body.errors)
    ELSE IF status >= 400
    THEN Rejected("Http", status, "HTTP error", <<>>)
    ELSE Resolved(body)

\* res.on("end"): what the handler settles the promise with.
\*   status >= 400                        -> reject HTTP error (status)
\*   JSON.parse(data) throws              -> catch: reject parse error (status)
\*   parsed is null: parsed.errors throws -> catch: reject parse error (status)
\*   parsed.errors non-empty              -> reject API error (errors[0].description,
\*                                           status, errors); errors[0] null:
\*                                           .description throws -> catch
\*   otherwise                            -> resolve(parsed)
hueRequestOnEnd(status, body) ==
    IF status >= 400
    THEN Rejected("Http", status, "HTTP error", <<>>)
    ELSE IF body.kind = "text"
    THEN Rejected("Parse", status, "Failed to parse", <<>>)
    ELSE IF body.kind = "null"
    THEN Rejected("Parse", status, "Failed to parse", <<>>)
    ELSE IF body.hasErrors /\ Len(body.errors) > 0
    THEN IF body.errors[1] = Null
         THEN Rejected("Parse", status, "Failed to parse", <<>>)
         ELSE Rejected("Api", status, body.errors[1], body.errors)
    ELSE Resolved(body)

\* req.on("error"): reject(new HueApiError("Connection failed: ..."))
hueRequestOnError == Rejected("Connection", 0, "Connection failed", <<>>)

\* req.setTimeout callback: reject(new HueApiError("Request timeout"))
hueRequestOnTimeout == Rejected("Timeout", 0, "Request timeout", <<>>)

\* `throw new HueApiError("Bridge not configured. ...")`
hueRequestNotConfigured == Rejected("NotConfigured", 0, "Bridge not configured", <<>>)

-----------------------------------------------------------------------------
(* authenticate: src/src/api/auth.ts *)

AuthenticateTimeoutMs == 10000

\* a pairing timeout longer than hueRequest's
authenticateTimeoutLonger == 2 * HueRequestTimeoutMs

\* the timeout authenticate arms with req.setTimeout
authenticateTimeout == AuthenticateTimeoutMs

\* the https.request authenticate builds: POST /api, no application key header
authenticateOptions(bridgeIP) ==
    [via |-> "authenticate", method |-> "POST", path |-> <<"/api">>,
     hostname |-> bridgeIP, keyHeader |-> NoVal,
     body |-> [field |-> "devicetype", n |-> 0],
     timeoutMs |-> authenticateTimeout]

\* res.on("end") of authenticate: the first element of a non-empty array, else
\* an error; the HTTP status is not looked at.
authenticateOnEnd(status, body) ==
    IF body.kind = "text"
    THEN Rejected("Parse", 0, "Failed to parse response", <<>>)
    ELSE IF body.kind = "array" /\ Len(body.items) > 0
    THEN Resolved(body)
    ELSE Rejected("Format", 0, "Unexpected authentication response format", <<>>)

authenticateOnError == Rejected("Connection", 0, "Connection failed", <<>>)
authenticateOnTimeout == Rejected("Timeout", 0, "Connection timeout", <<>>)

\* a classifier that takes every pairing error for "link button not pressed"
isLinkButtonErrorAnyType(response) == response.errType # 0

\* isLinkButtonError: `response.error?.type === 101`
isLinkButtonError(response) == response.errType = 101

\* getAuthError: `if (response.error) return response.error.description;
\* return null`
getAuthError(response) ==
    IF response.errType # 0 THEN response.description ELSE Null

\* getApplicationKey: `response.success?.username ?? null`
getApplicationKey(response) ==
    IF response.username # "" THEN response.username ELSE Null

-----------------------------------------------------------------------------
(* The fetch adapter: src/src/api/fetch-adapter.ts *)

NoResp == [status |-> 0, body |-> NoBody]

\* an adapter that answers every failure with status 500
createFetchAdapterAlways500(pr) ==
    IF pr.state = "fulfilled"
    THEN [status |-> 200, body |-> pr.value]
    ELSE [status |-> 500,
          body |-> BodyOf("object", TRUE,
                          IF pr.errors = <<>> THEN <<pr.message>> ELSE pr.errors,
                          FALSE, <<>>, <<>>)]

\* The Response the adapter builds from the settled hueRequest promise:
\*   fulfilled -> status 200, body JSON.stringify(result)
\*   rejected  -> status `error.statusCode || 500`,
\*                body {errors: error.errors || [{description: error.message}]}
createFetchAdapter(pr) ==
    IF pr.state = "fulfilled"
    THEN [status |-> 200, body |-> pr.value]
    ELSE [status |-> IF pr.statusCode = 0 THEN 500 ELSE pr.statusCode,
          body |-> BodyOf("object", TRUE,
                          IF pr.errors = <<>> THEN <<pr.message>> ELSE pr.errors,
                          FALSE, <<>>, <<>>)]

\* The generated client's runtime (BaseAPI.request and the model's FromJSON):
\* a Response with status in [200, 300) is parsed and gives `data` when the
\* body has it; any other status throws ResponseError.
generatedRequest(resp) ==
    IF resp.status >= 200 /\ resp.status < 300
    THEN [tag |-> "ok",
          hasData |-> resp.body.kind = "object" /\ resp.body.hasData,
          data |-> resp.body.data]
    ELSE [tag |-> "throw", hasData |-> FALSE, data |-> <<>>]

-----------------------------------------------------------------------------
(* What an operation gives its caller *)

\* tag "ok": `list` (list/update), `item` (get) or `auth` (authenticate) is
\* the value returned, `undef` says the value is undefined; tag "throw":
\* `error` names the exception.
ResultOf(t, e, l, i, u, a) ==
    [tag |-> t, error |-> e, list |-> l, item |-> i, undef |-> u, auth |-> a]
NoResult == ResultOf("none", "", <<>>, NoVal, FALSE, NoAuth)
Throw(e) == ResultOf("throw", e, <<>>, NoVal, FALSE, NoAuth)
ReturnList(l) == ResultOf("ok", "", l, NoVal, FALSE, NoAuth)
ReturnItem(i) == ResultOf("ok", "", <<>>, i, FALSE, NoAuth)
ReturnUndefined == ResultOf("ok", "", <<>>, NoVal, TRUE, NoAuth)
ReturnAuth(a) == ResultOf("ok", "", <<>>, NoVal, FALSE, a)
\* the parsed payload itself (promise.value)
ReturnPayload == ResultOf("ok", "", <<>>, NoVal, FALSE, NoAuth)

\* getLights, getRooms, getGroupedLights, getScenes, updateLight,
\* updateGroupedLight, updateScene: `return response.data || []`
listAccessor(r) ==
    IF r.tag = "throw" THEN Throw("ResponseError")
    ELSE ReturnList(IF r.hasData THEN r.data ELSE <<>>)

\* a get accessor that returns the last element
getAccessorLast(r) ==
    IF r.tag = "throw" THEN Throw("ResponseError")
    ELSE ReturnItem(IF r.hasData /\ Len(r.data) > 0 THEN r.data[Len(r.data)] ELSE Null)

\* getLight, getRoom, getGroupedLight, getScene:
\* `return response.data?.[0] ?? null`
getAccessor(r) ==
    IF r.tag = "throw" THEN Throw("ResponseError")
    ELSE ReturnItem(IF r.hasData /\ Len(r.data) > 0 THEN r.data[1] ELSE Null)

\* src/src/api/scenes.ts getScenes, updateScene: `return response.data`
directListAccessor(pr) ==
    IF pr.state = "rejected" THEN Throw(pr.kind)
    ELSE IF pr.value.kind = "object" /\ pr.value.hasData
    THEN ReturnList(pr.value.data)
    ELSE ReturnUndefined

\* src/src/api/scenes.ts getScene: `return response.data[0] ?? null`
directGetAccessor(pr) ==
    IF pr.state = "rejected" THEN Throw(pr.kind)
    ELSE IF ~(pr.value.kind = "object" /\ pr.value.hasData)
    THEN Throw("TypeError")
    ELSE ReturnItem(IF Len(pr.value.data) > 0 THEN pr.value.data[1] ELSE Null)

\* hueRequest called by itself: the parsed payload, or the HueApiError
rawResult(pr) ==
    IF pr.state = "rejected" THEN Throw(pr.kind) ELSE ReturnPayload

\* authenticate: `resolve(parsed[0])`
authenticateResult(pr) ==
    IF pr.state = "rejected" THEN Throw(pr.kind) ELSE ReturnAuth(pr.value.items[1])

\* An operation: the exported function called, the memoized API handle it
\* uses, its route to the bridge ("adapter": generated client and fetch
\* adapter; "direct": hueGet/huePut; "raw": hueRequest; "authenticate"), the
\* shape of its result and its numeric input.
CallOf(fn, h, via, shape, input) ==
    [fn |-> fn, handle |-> h, via |-> via, shape |-> shape, input |-> input]
NoCall == CallOf("", "", "", "", 0)

\* What runs once the request's promise has settled: the adapter (if any),
\* the generated runtime and the accessor's return. <<adapterResp, result>>.
Continuation(c, pr) ==
    IF c.via = "adapter"
    THEN LET resp == createFetchAdapter(pr)
             r == generatedRequest(resp)
         IN  <<resp, IF c.shape = "get" THEN getAccessor(r) ELSE listAccessor(r)>>
    ELSE IF c.via = "direct"
    THEN <<NoResp, IF c.shape = "get" THEN directGetAccessor(pr)
                   ELSE directListAccessor(pr)>>
    ELSE IF c.via = "raw"
    THEN <<NoResp, rawResult(pr)>>
    ELSE <<NoResp, authenticateResult(pr)>>

-----------------------------------------------------------------------------
(* The lazily created API instances: lights.ts, rooms.ts, part_000 *)

\* getConfig (rooms.ts), and the same lines inside getLightApi and
\* getSceneApi: getFetchAdapter() sets the adapter singleton, then the
\* credentials are resolved; none: throw. [ok, handles]
getConfig(hs, p, f) ==
    [ok |-> getCredentials(p, f).tag = "creds",
     handles |-> hs \cup {"fetchAdapter"}]

\* `if (!instance) { config = ...; instance = new Api(config) } return instance`
getApi(h, hs, p, f) ==
    IF h \in hs THEN [ok |-> TRUE, handles |-> hs]
    ELSE LET c == getConfig(hs, p, f)
         IN  IF c.ok THEN [ok |-> TRUE, handles |-> c.handles \cup {h}]
             ELSE [ok |-> FALSE, handles |-> c.handles]

getLightApi(hs, p, f) == getApi("light", hs, p, f)
getRoomApi(hs, p, f) == getApi("room", hs, p, f)
getGroupedLightApi(hs, p, f) == getApi("grouped_light", hs, p, f)
getSceneApi(hs, p, f) == getApi("scene", hs, p, f)

ApiFor(h, hs, p, f) ==
    IF h = "light" THEN getLightApi(hs, p, f)
    ELSE IF h = "room" THEN getRoomApi(hs, p, f)
    ELSE IF h = "grouped_light" THEN getGroupedLightApi(hs, p, f)
    ELSE getSceneApi(hs, p, f)

-----------------------------------------------------------------------------
(* Starting an operation *)

ResourcePath(kind) == <<"/clip", "/v2", "/resource", kind>>
\* the resource id used by the get and update calls
Id == "/id1"

\* hueRequest(endpoint, {method, body, bridgeIP, applicationKey}) up to
\* req.end(): it throws when no credentials resolve, else the request is
\* sent, its timeout armed and the promise pending.
HueRequestStart(c, hs, endpoint, method, body, optIP, optKey) ==
    LET cr == hueRequestCredentials(optIP, optKey, prefs, file)
    IN  /\ call' = c
        /\ handles' = hs
        /\ hangup' = FALSE
        /\ timedOut' = FALSE
        /\ res' = NoRes
        /\ late' = ""
        /\ IF cr.tag # "creds"
           THEN LET k == Continuation(c, hueRequestNotConfigured)
                IN  /\ req' = NoReq
                    /\ sent' = sent
                    /\ sock' = "none"
                    /\ promise' = hueRequestNotConfigured
                    /\ settles' = 1
                    /\ adapterResp' = k[1]
                    /\ result' = k[2]
           ELSE LET r == hueRequestOptions(endpoint, method, body, cr)
                IN  /\ req' = r
                    /\ sent' = sent + 1
                    /\ sock' = "open"
                    /\ promise' = Pending
                    /\ settles' = 0
                    /\ adapterResp' = NoResp
                    /\ result' = NoResult

\* An accessor of the generated client: get the API instance (which may
\* throw "Bridge not configured"), then the generated method calls the fetch
\* adapter, which calls hueRequest(endpoint, {method, body}).
GeneratedCall(c, method, endpoint, body) ==
    /\ call = NoCall
    /\ LET api == ApiFor(c.handle, handles, prefs, file)
       IN  IF ~api.ok
           THEN /\ call' = c
                /\ handles' = api.handles
                /\ result' = Throw("NotConfigured")
                /\ UNCHANGED <<req, sent, sock, hangup, timedOut, promise,
                               settles, res, late, adapterResp>>
           ELSE HueRequestStart(c, api.handles, endpoint, method, body, NoVal, NoVal)
    /\ UNCHANGED <<credVars, sceneVars, lazyVars, uiVars>>

\* An accessor written on hueGet / huePut (src/src/api/scenes.ts).
DirectCall(c, method, endpoint, body) ==
    /\ call = NoCall
    /\ HueRequestStart(c, handles, endpoint, method, body, NoVal, NoVal)
    /\ UNCHANGED <<credVars, sceneVars, lazyVars, uiVars>>

-----------------------------------------------------------------------------
(* The accessors: src/src/api/lights.ts *)

\* the inputs tried for a brightness and for a mirek
BrightnessInputs ==
    ((1 - Margin)..(1 + Margin)) \cup ((100 - Margin)..(100 + Margin)) \cup {50, 150}
MirekInputs ==
    ((153 - Margin)..(153 + Margin)) \cup ((500 - Margin)..(500 + Margin))
    \cup {100, 300, 600}

Json(field, n) == [field |-> field, n |-> n]

GetLights ==
    GeneratedCall(CallOf("getLights", "light", "adapter", "list", 0),
                  "GET", ResourcePath("/light"), NoJson)

GetLight ==
    GeneratedCall(CallOf("getLight", "light", "adapter", "get", 0),
                  "GET", Append(ResourcePath("/light"), Id), NoJson)

\* updateLight(lightId, data), called by the setters below
updateLight(fn, input, data) ==
    GeneratedCall(CallOf(fn, "light", "adapter", "update", input),
                  "PUT", Append(ResourcePath("/light"), Id), data)

ToggleLight ==
    \E on \in {0, 1} : updateLight("toggleLight", on, Json("on.on", on))

\* a brightness clamp that lets 0 through
setLightBrightnessData0(brightness) ==
    Json("dimming.brightness", Max(0, Min(100, brightness)))

\* setLightBrightness: clampedBrightness = Math.max(1, Math.min(100, brightness))
setLightBrightnessData(brightness) ==
    Json("dimming.brightness", Max(1, Min(100, brightness)))

SetLightBrightness ==
    \E b \in BrightnessInputs :
        updateLight("setLightBrightness", b, setLightBrightnessData(b))

SetLightColor ==
    updateLight("setLightColor", 0, Json("color.xy", 0))

\* a mirek clamp with no upper limit
setLightColorTemperatureDataNoMax(mirek) ==
    Json("color_temperature.mirek", Max(153, mirek))

\* setLightColorTemperature: clampedMirek = Math.max(153, Math.min(500, mirek))
setLightColorTemperatureData(mirek) ==
    Json("color_temperature.mirek", Max(153, Min(500, mirek)))

SetLightColorTemperature ==
    \E m \in MirekInputs :
        updateLight("setLightColorTemperature", m, setLightColorTemperatureData(m))

(* The accessors: src/src/api/rooms.ts *)

GetRooms ==
    GeneratedCall(CallOf("getRooms", "room", "adapter", "list", 0),
                  "GET", ResourcePath("/room"), NoJson)

GetRoom ==
    GeneratedCall(CallOf("getRoom", "room", "adapter", "get", 0),
                  "GET", Append(ResourcePath("/room"), Id), NoJson)

GetGroupedLights ==
    GeneratedCall(CallOf("getGroupedLights", "grouped_light", "adapter", "list", 0),
                  "GET", ResourcePath("/grouped_light"), NoJson)

GetGroupedLight ==
    GeneratedCall(CallOf("getGroupedLight", "grouped_light", "adapter", "get", 0),
                  "GET", Append(ResourcePath("/grouped_light"), Id), NoJson)

\* updateGroupedLight(groupedLightId, data), called by the setters below
updateGroupedLight(fn, input, data) ==
    GeneratedCall(CallOf(fn, "grouped_light", "adapter", "update", input),
                  "PUT", Append(ResourcePath("/grouped_light"), Id), data)

ToggleRoom ==
    \E on \in {0, 1} : updateGroupedLight("toggleRoom", on, Json("on.on", on))

\* setRoomBrightness: clampedBrightness = Math.max(1, Math.min(100, brightness))
setRoomBrightnessData(brightness) ==
    Json("dimming.brightness", Max(1, Min(100, brightness)))

SetRoomBrightness ==
    \E b \in BrightnessInputs :
        updateGroupedLight("setRoomBrightness", b, setRoomBrightnessData(b))

(* The accessors: src/unnamed/part_000 (scenes on the generated client) *)

GetScenes ==
    GeneratedCall(CallOf("getScenes", "scene", "adapter", "list", 0),
                  "GET", ResourcePath("/scene"), NoJson)

GetScene ==
    GeneratedCall(CallOf("getScene", "scene", "adapter", "get", 0),
                  "GET", Append(ResourcePath("/scene"), Id), NoJson)

\* activateScene -> updateScene(sceneId, {recall})
ActivateScene ==
    GeneratedCall(CallOf("activateScene", "scene", "adapter", "update", 0),
                  "PUT", Append(ResourcePath("/scene"), Id), Json("recall.action", 0))

(* The accessors: src/src/api/scenes.ts (scenes on hueGet / huePut) *)

HueGetScenes ==
    DirectCall(CallOf("getScenes", "", "direct", "list", 0),
               "GET", ResourcePath("/scene"), NoJson)

HueGetScene ==
    DirectCall(CallOf("getScene", "", "direct", "get", 0),
               "GET", Append(ResourcePath("/scene"), Id), NoJson)

HueActivateScene ==
    DirectCall(CallOf("activateScene", "", "direct", "update", 0),
               "PUT", Append(ResourcePath("/scene"), Id), Json("recall.action", 0))

(* hueRequest called with an endpoint of the caller's choice (huePost,
   hueDelete, hueGet, huePut or hueRequest itself) *)

Endpoints ==
    { <<"/api">>, <<"/api", "/0", "/config">>,
      ResourcePath("/light"), Append(ResourcePath("/scene"), Id) }

HueRequest ==
    /\ call = NoCall
    /\ \E endpoint \in Endpoints, method \in {"GET", "POST"},
          opt \in {<<NoVal, NoVal>>, <<"10.0.0.9", "optkey">>, <<"10.0.0.9", NoVal>>} :
          HueRequestStart(CallOf("hueRequest", "", "raw", "raw", 0), handles,
                          endpoint, method,
                          IF method = "POST" THEN Json("devicetype", 0) ELSE NoJson,
                          opt[1], opt[2])
    /\ UNCHANGED <<credVars, sceneVars, lazyVars, uiVars>>

(* authenticate: src/src/api/auth.ts *)

Authenticate ==
    /\ call = NoCall
    /\ \E bridgeIP \in {"10.0.0.1"} :
          LET r == authenticateOptions(bridgeIP)
          IN  /\ call' = CallOf("authenticate", "", "authenticate", "auth", 0)
              /\ req' = r
              /\ sent' = sent + 1
              /\ sock' = "open"
              /\ promise' = Pending
              /\ settles' = 0
    /\ hangup' = FALSE
    /\ timedOut' = FALSE
    /\ res' = NoRes
    /\ late' = ""
    /\ adapterResp' = NoResp
    /\ result' = NoResult
    /\ UNCHANGED handles
    /\ UNCHANGED <<credVars, sceneVars, lazyVars, uiVars>>

-----------------------------------------------------------------------------
(* The events of a request in flight *)

\* The handler settled the promise with `outcome` (a no-op when the promise
\* is settled already); if that settled it, the awaiting code runs on.
SettleWith(outcome) ==
    LET pr == Settle(promise, outcome)
        k == Continuation(call, pr)
    IN  /\ promise' = pr
        /\ IF promise.state = "pending" /\ pr.state # "pending"
           THEN /\ settles' = settles + 1
                /\ adapterResp' = k[1]
                /\ result' = k[2]
           ELSE UNCHANGED <<settles, adapterResp, result>>

\* res.on("end"): the response is complete. After req.destroy() a response
\* that was already buffered may still be delivered.
ResponseEnd ==
    /\ sock \in {"open", "destroyed"}
    /\ \E status \in Statuses, body \in Bodies :
          /\ res' = IF promise.state = "pending"
                    THEN [status |-> status, body |-> body] ELSE res
          /\ SettleWith(IF req.via = "hueRequest"
                        THEN hueRequestOnEnd(status, body)
                        ELSE authenticateOnEnd(status, body))
    /\ sock' = "closed"
    /\ hangup' = FALSE
    /\ late' = IF promise.state = "pending" THEN "" ELSE "end"
    /\ UNCHANGED <<handles, call, req, sent, timedOut>>
    /\ UNCHANGED <<credVars, sceneVars, lazyVars, uiVars>>

\* an 'error' handler that sends the request once more instead of rejecting
RequestErrorRetry ==
    /\ sock = "open" \/ (sock = "destroyed" /\ hangup)
    /\ sent <= 1
    /\ sent' = sent + 1
    /\ sock' = "open"
    /\ hangup' = FALSE
    /\ UNCHANGED <<handles, call, req, timedOut, promise, settles, res, late,
                   adapterResp, result>>
    /\ UNCHANGED <<credVars, sceneVars, lazyVars, uiVars>>

\* req.on("error"): the connection failed, or (after req.destroy()) the
\* "socket hang up" error the destroyed request emits.
RequestError ==
    /\ sock = "open" \/ (sock = "destroyed" /\ hangup)
    /\ SettleWith(IF req.via = "hueRequest" THEN hueRequestOnError
                  ELSE authenticateOnError)
    /\ sock' = "closed"
    /\ hangup' = FALSE
    /\ late' = IF promise.state = "pending" THEN "" ELSE "error"
    /\ UNCHANGED <<handles, call, req, sent, timedOut, res>>
    /\ UNCHANGED <<credVars, sceneVars, lazyVars, uiVars>>

\* a timeout callback that destroys the request and leaves the rejection to
\* the 'error' handler
RequestTimeoutDestroyOnly ==
    /\ sock = "open"
    /\ sock' = "destroyed"
    /\ hangup' = TRUE
    /\ timedOut' = (promise.state = "pending")
    /\ UNCHANGED <<promise, settles, adapterResp, result>>
    /\ UNCHANGED <<handles, call, req, sent, res, late>>
    /\ UNCHANGED <<credVars, sceneVars, lazyVars, uiVars>>

\* req.setTimeout(ms, () => { req.destroy(); reject(timeout error) })
RequestTimeout ==
    /\ sock = "open"
    /\ sock' = "destroyed"
    /\ hangup' = TRUE
    /\ timedOut' = (promise.state = "pending")
    /\ SettleWith(IF req.via = "hueRequest" THEN hueRequestOnTimeout
                  ELSE authenticateOnTimeout)
    /\ UNCHANGED <<handles, call, req, sent, res, late>>
    /\ UNCHANGED <<credVars, sceneVars, lazyVars, uiVars>>

\* The operation's caller has its result; the next operation can start.
Return ==
    /\ call # NoCall
    /\ result.tag # "none"
    /\ call' = NoCall
    /\ req' = NoReq
    /\ sent' = 0
    /\ sock' = "none"
    /\ hangup' = FALSE
    /\ timedOut' = FALSE
    /\ promise' = NoPromise
    /\ settles' = 0
    /\ res' = NoRes
    /\ late' = ""
    /\ adapterResp' = NoResp
    /\ result' = NoResult
    /\ UNCHANGED handles
    /\ UNCHANGED <<credVars, sceneVars, lazyVars, uiVars>>

-----------------------------------------------------------------------------
(* groupScenesByRoom: src/unnamed/part_000 and src/src/api/scenes.ts *)

\* the longest scene list grouped
MaxScenes == 4

RoomIds == {"A", "B"}

\* A scene's `group` property: left out, a reference without `rid`, or a
\* reference to a room.
SceneGroups ==
    { [group |-> FALSE, rid |-> NoVal], [group |-> TRUE, rid |-> NoVal] }
    \cup { [group |-> TRUE, rid |-> r] : r \in RoomIds }

\* the scene list whose i-th scene has id i and the i-th `group` of refs
ScenesOf(refs) ==
    [i \in 1..Len(refs) |->
        [id |-> i, group |-> refs[i].group, rid |-> refs[i].rid]]

SceneLists == { ScenesOf(refs) : refs \in SeqsUpTo(SceneGroups, MaxScenes) }

\* The keys a Map<string, Scene[]> is looked at under; `undefined` (NoVal) is
\* a key a Map accepts.
MapKeys == RoomIds \cup {NoVal, "unassigned"}

\* What a grouping call gave: tag "ok" with the Map (the keys it has and the
\* array under each of them), or tag "throw".
GroupingOf(t, keys, buckets) == [tag |-> t, keys |-> keys, buckets |-> buckets]
EmptyMap == GroupingOf("ok", {}, [k \in MapKeys |-> <<>>])
NoGrouping == GroupingOf("none", {}, [k \in MapKeys |-> <<>>])
GroupingTypeError == GroupingOf("throw", {}, [k \in MapKeys |-> <<>>])

\* `existing = grouped.get(roomId) ?? []; existing.push(scene);
\*  grouped.set(roomId, existing)`
PushScene(m, roomId, scene) ==
    GroupingOf("ok", m.keys \cup {roomId},
               [m.buckets EXCEPT ![roomId] = Append(m.buckets[roomId], scene)])

\* part_000: `roomId = scene.group?.rid; if (!roomId) continue; ...`
RECURSIVE groupScenesLoop(_, _, _)
groupScenesLoop(list, i, m) ==
    IF i > Len(list) THEN m
    ELSE LET scene == list[i]
             roomId == IF scene.group THEN scene.rid ELSE NoVal
         IN  IF ~Truthy(roomId)
             THEN groupScenesLoop(list, i + 1, m)
             ELSE groupScenesLoop(list, i + 1, PushScene(m, roomId, scene))

\* groupScenesByRoom of src/unnamed/part_000
groupScenesByRoom(list) == groupScenesLoop(list, 1, EmptyMap)

\* scenes.ts: `roomId = scene.group.rid` (a TypeError when `group` is left
\* out), no skip
RECURSIVE directGroupScenesLoop(_, _, _)
directGroupScenesLoop(list, i, m) ==
    IF i > Len(list) THEN m
    ELSE LET scene == list[i]
         IN  IF ~scene.group
             THEN GroupingTypeError
             ELSE directGroupScenesLoop(list, i + 1,
                                        PushScene(m, scene.rid, scene))

\* groupScenesByRoom of src/src/api/scenes.ts
directGroupScenesByRoom(list) == directGroupScenesLoop(list, 1, EmptyMap)

\* A call of groupScenesByRoom(scenes), generated-client version.
GroupScenesByRoom ==
    /\ grouped = NoGrouping
    /\ grouped' = groupScenesByRoom(scenes)
    /\ UNCHANGED scenes
    /\ UNCHANGED <<credVars, reqVars, lazyVars, uiVars>>

\* A call of groupScenesByRoom(scenes), scenes.ts version.
DirectGroupScenesByRoom ==
    /\ grouped = NoGrouping
    /\ grouped' = directGroupScenesByRoom(scenes)
    /\ UNCHANGED scenes
    /\ UNCHANGED <<credVars, reqVars, lazyVars, uiVars>>

IdleScenes ==
    /\ scenes = <<>>
    /\ grouped = NoGrouping

-----------------------------------------------------------------------------
(* The lazily created singletons, await by await: fetch-adapter.ts 95-106,
   lights.ts 8-29, rooms.ts 9-41, part_000 8-29.  getApi above is one call
   run to its end with no other call in between; here several accessor
   calls run side by side and each stops at its awaits. *)

\* how many accessor calls run side by side
MaxCalls == 2

Procs == 1..MaxCalls

ApiHandles == {"light", "room", "grouped_light", "scene"}
Handles == ApiHandles \cup {"fetchAdapter"}

\* A module-level `let xInstance = null`: `stored` is the instance it holds
\* (0: null; instance k is the k-th one built), `built` counts the instances
\* built for it so far.
NoInstance == [stored |-> 0, built |-> 0]

\* An accessor call: where it stands (pc), the API it asked for, the adapter
\* its createFetchAdapter() built and has yet to store (0: none), the
\* requests it sent and how it ended.
ProcOf(pc, h, adapter, requests, outcome) ==
    [pc |-> pc, handle |-> h, adapter |-> adapter, requests |-> requests,
     outcome |-> outcome]
IdleProc == ProcOf("idle", "", 0, 0, "")

\* the singletons that hold an instance
StoredHandles(inst) == { h \in Handles : inst[h].stored # 0 }

\* a getXApi that stores an instance before it looks at the credentials
getApiResumeMemoized(pr, inst, cr) ==
    LET k == inst[pr.handle].built + 1
        set == [inst EXCEPT ![pr.handle] = [stored |-> k, built |-> k]]
    IN  IF cr.tag # "creds"
        THEN [proc |-> ProcOf("done", pr.handle, 0, 0, "NotConfigured"),
              instances |-> set]
        ELSE [proc |-> ProcOf("request", pr.handle, 0, 0, ""),
              instances |-> set]

\* getLightApi / getSceneApi / getConfig after `await getFetchAdapter()`:
\* `credentials = getCredentials(); if (!credentials) throw ...`, then the
\* Configuration is built; getLightApi and getSceneApi go straight on to
\* `xApiInstance = new XApi(config)`, getConfig returns to an `await`.
getApiResume(pr, inst, cr) ==
    LET k == inst[pr.handle].built + 1
    IN  IF cr.tag # "creds"
        THEN [proc |-> ProcOf("done", pr.handle, 0, 0, "NotConfigured"),
              instances |-> inst]
        ELSE IF pr.handle \in {"room", "grouped_light"}
        THEN [proc |-> ProcOf("getConfig", pr.handle, 0, 0, ""),
              instances |-> inst]
        ELSE [proc |-> ProcOf("request", pr.handle, 0, 0, ""),
              instances |-> [inst EXCEPT ![pr.handle] = [stored |-> k, built |-> k]]]

\* An accessor is called: `api = await getXApi()` up to its first await.
\*   `if (!xApiInstance)` fails: the stored instance is returned;
\*   else getFetchAdapter(): `if (!fetchAdapterInstance)` holds:
\*        createFetchAdapter() builds an adapter and is awaited;
\*   else the stored adapter is returned and awaited.
\* The calls are numbered in the order they start.
GetApiEnter(p) ==
    /\ procs[p].pc = "idle"
    /\ \A q \in 1..(p - 1) : procs[q].pc # "idle"
    /\ \E h \in ApiHandles :
          IF instances[h].stored # 0
          THEN /\ procs' = [procs EXCEPT ![p] =
                               ProcOf("request", h, 0, 0, "")]
               /\ UNCHANGED instances
          ELSE IF instances["fetchAdapter"].stored = 0
          THEN LET k == instances["fetchAdapter"].built + 1
               IN  /\ procs' = [procs EXCEPT ![p] =
                                   ProcOf("createFetchAdapter", h, k, 0, "")]
                   /\ instances' = [instances EXCEPT !["fetchAdapter"].built = k]
          ELSE /\ procs' = [procs EXCEPT ![p] =
                               ProcOf("getFetchAdapter", h, 0, 0, "")]
               /\ UNCHANGED instances
    /\ UNCHANGED handles
    /\ UNCHANGED <<call, req, sent, sock, hangup, timedOut, promise, settles,
                   res, late, adapterResp, result>>
    /\ UNCHANGED <<credVars, sceneVars, uiVars>>

\* getFetchAdapter after `await createFetchAdapter()`:
\* `fetchAdapterInstance = <the adapter>; return fetchAdapterInstance`
GetFetchAdapterResume(p) ==
    /\ procs[p].pc = "createFetchAdapter"
    /\ instances' = [instances EXCEPT !["fetchAdapter"].stored = procs[p].adapter]
    /\ procs' = [procs EXCEPT ![p].pc = "getFetchAdapter", ![p].adapter = 0]
    /\ handles' = StoredHandles(instances')
    /\ UNCHANGED <<call, req, sent, sock, hangup, timedOut, promise, settles,
                   res, late, adapterResp, result>>
    /\ UNCHANGED <<credVars, sceneVars, uiVars>>

\* getLightApi, getSceneApi or getConfig goes on after `await getFetchAdapter()`.
GetApiResume(p) ==
    /\ procs[p].pc = "getFetchAdapter"
    /\ LET r == getApiResume(procs[p], instances, getCredentials(prefs, file))
       IN  /\ procs' = [procs EXCEPT ![p] = r.proc]
           /\ instances' = r.instances
    /\ handles' = StoredHandles(instances')
    /\ UNCHANGED <<call, req, sent, sock, hangup, timedOut, promise, settles,
                   res, late, adapterResp, result>>
    /\ UNCHANGED <<credVars, sceneVars, uiVars>>

\* getRoomApi / getGroupedLightApi after `await getConfig()`:
\* `xApiInstance = new XApi(config); return xApiInstance`
GetConfigResume(p) ==
    /\ procs[p].pc = "getConfig"
    /\ LET h == procs[p].handle
           k == instances[h].built + 1
       IN  /\ instances' = [instances EXCEPT ![h] = [stored |-> k, built |-> k]]
           /\ procs' = [procs EXCEPT ![p].pc = "request"]
    /\ handles' = StoredHandles(instances')
    /\ UNCHANGED <<call, req, sent, sock, hangup, timedOut, promise, settles,
                   res, late, adapterResp, result>>
    /\ UNCHANGED <<credVars, sceneVars, uiVars>>

\* `response = await api.method()`: the generated client calls the adapter,
\* which calls hueRequest; without credentials hueRequest throws before it
\* sends anything and the accessor fails with the runtime's ResponseError.
ApiRequest(p) ==
    /\ procs[p].pc = "request"
    /\ IF hueRequestCredentials(NoVal, NoVal, prefs, file).tag # "creds"
       THEN procs' = [procs EXCEPT ![p].pc = "done", ![p].outcome = "ResponseError"]
       ELSE procs' = [procs EXCEPT ![p].pc = "response",
                                   ![p].requests = procs[p].requests + 1]
    /\ UNCHANGED <<instances, reqVars, credVars, sceneVars, uiVars>>

\* The request's promise settled and the accessor returned or threw.
ApiResponse(p) ==
    /\ procs[p].pc = "response"
    /\ \E outcome \in {"ok", "ResponseError"} :
          procs' = [procs EXCEPT ![p].pc = "done", ![p].outcome = outcome]
    /\ UNCHANGED <<instances, reqVars, credVars, sceneVars, uiVars>>

\* The user fills in both preferences (README: "Configure your Hue Bridge
\* connection in the extension preferences").
ConfigureBridge ==
    /\ ~(Truthy(prefs.bridgeIP) /\ Truthy(prefs.applicationKey))
    /\ prefs' = [bridgeIP |-> "10.0.0.1", applicationKey |-> "prefkey"]
    /\ UNCHANGED <<file, credResult>>
    /\ UNCHANGED <<reqVars, sceneVars, lazyVars, uiVars>>

\* The user clears the preferences.
ForgetBridge ==
    /\ Truthy(prefs.bridgeIP) /\ Truthy(prefs.applicationKey)
    /\ prefs' = [bridgeIP |-> NoVal, applicationKey |-> NoVal]
    /\ UNCHANGED <<file, credResult>>
    /\ UNCHANGED <<reqVars, sceneVars, lazyVars, uiVars>>

IdleLazy ==
    /\ procs = [p \in Procs |-> IdleProc]
    /\ instances = [h \in Handles |-> NoInstance]

-----------------------------------------------------------------------------
(* The light action handlers of the lights list: src/src/lights.tsx 113-180.
   Each is
       try { await <mutation>; await showToast(Success); await revalidate() }
       catch (error) { await showToast(Failure) }
   and its mutation is the accessor call in `call`. *)

\* A handler run: the statement it stands at ("mutation": the first await of
\* the try block, "revalidate", "catch", "done"), the notifications shown so
\* far, how often the list was re-fetched, and the step that threw.
UiOf(pc, toasts, refetches, failed) ==
    [pc |-> pc, toasts |-> toasts, refetches |-> refetches, failed |-> failed]
IdleUI == UiOf("mutation", <<>>, 0, "")

\* the accessor calls the four handlers make
HandlerMutations ==
    {"toggleLight", "setLightBrightness", "setLightColor", "setLightColorTemperature"}

\* handleToggle: `await toggleLight(light.id, !isOn)`
HandleToggle == ui = IdleUI /\ ToggleLight

\* handleSetBrightness: `await setLightBrightness(light.id, value)`
HandleSetBrightness == ui = IdleUI /\ SetLightBrightness

\* handleSetColor: `xy = hexToXY(hex); await setLightColor(light.id, xy.x, xy.y)`
HandleSetColor == ui = IdleUI /\ SetLightColor

\* handleSetTemperature: `await setLightColorTemperature(light.id, mirek)`
HandleSetTemperature == ui = IdleUI /\ SetLightColorTemperature

\* The mutation returned: `await showToast({ style: Toast.Style.Success, ... })`
ShowSuccessToast ==
    /\ call.fn \in HandlerMutations
    /\ ui.pc = "mutation"
    /\ result.tag = "ok"
    /\ ui' = UiOf("revalidate", Append(ui.toasts, "Success"), ui.refetches, "")
    /\ UNCHANGED <<credVars, reqVars, sceneVars, lazyVars>>

\* `await revalidate()`: the list is fetched again; the call returns or throws.
Revalidate ==
    /\ ui.pc = "revalidate"
    /\ \E ok \in BOOLEAN :
          ui' = IF ok
                THEN UiOf("done", ui.toasts, ui.refetches + 1, "")
                ELSE UiOf("catch", ui.toasts, ui.refetches + 1, "revalidate")
    /\ UNCHANGED <<credVars, reqVars, sceneVars, lazyVars>>

\* catch (error): `await showToast({ style: Toast.Style.Failure, ... })`,
\* entered from the mutation that threw or from a later step of the try block.
ShowFailureToast ==
    /\ call.fn \in HandlerMutations
    /\ \/ ui.pc = "mutation" /\ result.tag = "throw"
       \/ ui.pc = "catch"
    /\ ui' = UiOf("done", Append(ui.toasts, "Failure"), ui.refetches,
                  IF ui.pc = "mutation" THEN "mutation" ELSE ui.failed)
    /\ UNCHANGED <<credVars, reqVars, sceneVars, lazyVars>>

-----------------------------------------------------------------------------
(* Specifications *)

IdleRequest ==
    /\ handles = {}
    /\ call = NoCall
    /\ req = NoReq
    /\ sent = 0
    /\ sock = "none"
    /\ hangup = FALSE
    /\ timedOut = FALSE
    /\ promise = NoPromise
    /\ settles = 0
    /\ res = NoRes
    /\ late = ""
    /\ adapterResp = NoResp
    /\ result = NoResult

\* The bridge client at work: the credentials are configured in the
\* preferences, in the config file, or not at all.
Init ==
    /\ \E ip \in {NoVal, "10.0.0.1"} :
          prefs = [bridgeIP |-> ip, applicationKey |-> IF ip = NoVal THEN NoVal ELSE "prefkey"]
    /\ \E k \in {"absent", "mapping"} :
          file = [kind |-> k,
                  bridge |-> IF k = "absent" THEN NoVal ELSE "10.0.0.5",
                  key |-> IF k = "absent" THEN NoVal ELSE "abc123"]
    /\ credResult = NotCalled
    /\ IdleRequest
    /\ IdleScenes
    /\ IdleLazy
    /\ ui = IdleUI

Next ==
    \/ GetLights \/ GetLight \/ ToggleLight \/ SetLightBrightness
    \/ SetLightColor \/ SetLightColorTemperature
    \/ GetRooms \/ GetRoom \/ GetGroupedLights \/ GetGroupedLight
    \/ ToggleRoom \/ SetRoomBrightness
    \/ GetScenes \/ GetScene \/ ActivateScene
    \/ HueGetScenes \/ HueGetScene \/ HueActivateScene
    \/ HueRequest \/ Authenticate
    \/ ResponseEnd \/ RequestError \/ RequestTimeout
    \/ Return

Spec == Init /\ [][Next]_vars

\* Credential resolution alone, over every content of the two sources.
InitCred ==
    /\ prefs \in Preferences
    /\ file \in ConfigFiles
    /\ credResult = NotCalled
    /\ IdleRequest
    /\ IdleScenes
    /\ IdleLazy
    /\ ui = IdleUI

NextCred == GetCredentials \/ EditPreferences \/ EditConfigFile

SpecCred == InitCred /\ [][NextCred]_vars

\* Scene grouping alone, over every scene list up to MaxScenes.
InitScenes ==
    /\ prefs = [bridgeIP |-> NoVal, applicationKey |-> NoVal]
    /\ file = [kind |-> "absent", bridge |-> NoVal, key |-> NoVal]
    /\ credResult = NotCalled
    /\ IdleRequest
    /\ IdleLazy
    /\ ui = IdleUI
    /\ scenes \in SceneLists
    /\ grouped = NoGrouping

NextScenes == GroupScenesByRoom \/ DirectGroupScenesByRoom

SpecScenes == InitScenes /\ [][NextScenes]_vars

\* Accessor calls side by side on the lazily created singletons, while the
\* user may fill in or clear the preferences.
InitLazy ==
    /\ \E ip \in {NoVal, "10.0.0.1"} :
          prefs = [bridgeIP |-> ip, applicationKey |-> IF ip = NoVal THEN NoVal ELSE "prefkey"]
    /\ file = [kind |-> "absent", bridge |-> NoVal, key |-> NoVal]
    /\ credResult = NotCalled
    /\ IdleRequest
    /\ IdleScenes
    /\ IdleLazy
    /\ ui = IdleUI

NextLazy ==
    \/ \E p \in Procs : GetApiEnter(p)
    \/ \E p \in Procs : GetFetchAdapterResume(p)
    \/ \E p \in Procs : GetApiResume(p)
    \/ \E p \in Procs : GetConfigResume(p)
    \/ \E p \in Procs : ApiRequest(p)
    \/ \E p \in Procs : ApiResponse(p)
    \/ ConfigureBridge \/ ForgetBridge

SpecLazy == InitLazy /\ [][NextLazy]_vars

\* One run of a light action handler; the lights list is rendered only when
\* credentials resolve (LightsCommand).
InitUI ==
    /\ Init
    /\ getCredentials(prefs, file).tag = "creds"

NextUI ==
    \/ HandleToggle \/ HandleSetBrightness \/ HandleSetColor
    \/ HandleSetTemperature
    \/ ResponseEnd \/ RequestError \/ RequestTimeout
    \/ ShowSuccessToast \/ Revalidate \/ ShowFailureToast

SpecUI == InitUI /\ [][NextUI]_vars

-----------------------------------------------------------------------------
(* Claims *)

\* a response's 'end' event settled the promise of a hueRequest call
HueResponseHandled == req.via = "hueRequest" /\ res # NoRes

\* the body is JSON carrying a non-empty `errors` array
HasApiErrors(body) == body.kind = "object" /\ body.hasErrors /\ Len(body.errors) > 0

ReadingThrows(body) ==
    \/ body.kind = "null"
    \/ HasApiErrors(body) /\ body.errors[1] = Null

C2_NeverSwallowed ==
    call.via = "adapter" /\ promise.state = "rejected" =>
        adapterResp.status >= 400 /\ result.tag = "throw"

PrefsComplete == Truthy(prefs.bridgeIP) /\ Truthy(prefs.applicationKey)
FileComplete == file.kind = "mapping" /\ Truthy(file.bridge) /\ Truthy(file.key)
CredentialsResolved == credResult.tag # "not called"

\* C3: getCredentials is the layered resolver: both preferences set (not
\* undefined, not empty) gives exactly the preferences, whatever the file
\* holds; otherwise a file holding both bridge and key gives exactly those;
\* otherwise null. The pair returned always comes whole from one source.
C3_LayeredResolver ==
    CredentialsResolved =>
        /\ PrefsComplete =>
              credResult = Credentials(prefs.bridgeIP, prefs.applicationKey)
        /\ ~PrefsComplete /\ FileComplete =>
              credResult = Credentials(file.bridge, file.key)
        /\ ~PrefsComplete /\ ~FileComplete => credResult = NullCredentials
        /\ credResult.tag = "creds" =>
              \/ /\ credResult.bridgeIP = prefs.bridgeIP
                 /\ credResult.applicationKey = prefs.applicationKey
              \/ /\ credResult.bridgeIP = file.bridge
                 /\ credResult.applicationKey = file.key

\* C3 witness: both sources are complete and differ, and the preferences won.
C3_Witness ==
    /\ PrefsComplete
    /\ FileComplete
    /\ file.bridge # prefs.bridgeIP
    /\ credResult = Credentials(prefs.bridgeIP, prefs.applicationKey)

\* the config file gives no credentials: absent, unreadable, empty, malformed,
\* or without a bridge or a key
FileUnusable ==
    \/ file.kind \in {"absent", "unreadable", "empty", "malformed", "scalar"}
    \/ ~Truthy(file.bridge)
    \/ ~Truthy(file.key)

\* C4: with incomplete preferences and a config file that is absent,
\* unreadable, empty, malformed or lacking bridge or key, credential
\* resolution returns null and raises nothing.
C4_NotConfiguredNeverThrows ==
    CredentialsResolved /\ ~PrefsComplete /\ FileUnusable =>
        credResult = NullCredentials

\* C4 witness: malformed YAML, incomplete preferences, and null came back.
C4_Witness ==
    /\ ~PrefsComplete
    /\ file.kind = "malformed"
    /\ credResult = NullCredentials

\* C5: once the timeout callback has run on a pending request (hueRequest or
\* pairing), the promise is rejected with the timeout error, it changed state
\* exactly once, and the error or response events that follow the abort
\* leave that outcome in place; no promise changes state twice.
C5_TimeoutOutcomeStays ==
    /\ settles <= 1
    /\ timedOut =>
          /\ promise.state = "rejected"
          /\ promise.kind = "Timeout"
          /\ settles = 1
          /\ call.via \in {"raw", "direct", "authenticate"} =>
                result.tag = "throw" /\ result.error = "Timeout"

\* C5 witness: a pairing request timed out, the destroyed request's 'error'
\* event was handled afterwards, and the outcome is still the timeout.
C5_Witness ==
    /\ req.via = "authenticate"
    /\ timedOut
    /\ late = "error"
    /\ promise.kind = "Timeout"

\* C6 as stated: the pairing request's timeout is strictly greater than
\* hueRequest's.
C6_PairingTimeoutLonger ==
    req.via = "authenticate" => req.timeoutMs > hueRequestTimeout

\* C6, amended: the two timeouts differ the other way round: every pairing
\* request is armed with a timeout strictly less than hueRequest's, and every
\* hueRequest with one strictly greater than the pairing request's.
C6_PairingTimeoutShorter ==
    /\ req.via = "authenticate" => req.timeoutMs < hueRequestTimeout
    /\ req.via = "hueRequest" => req.timeoutMs > authenticateTimeout

\* C6 witness: a pairing request is in flight with its 10 s timeout armed.
C6_Witness ==
    /\ req.via = "authenticate"
    /\ sock = "open"
    /\ req.timeoutMs = AuthenticateTimeoutMs

\* The application key a hueRequest call resolved: the one passed in the
\* options when both options were given (the request then goes to the
\* options' address), else the one getCredentials gives.
ResolvedKey ==
    IF req.hostname = "10.0.0.9" THEN "optkey"
    ELSE getCredentials(prefs, file).applicationKey

\* C7 as stated: a hueRequest request lacks the hue-application-key header
\* exactly when it is the pairing request POST /api; every other one carries
\* the resolved key.
C7_OnlyPairingUnauthenticated ==
    req.via = "hueRequest" =>
        IF req.path = <<"/api">> /\ req.method = "POST"
        THEN req.keyHeader = NoVal
        ELSE req.keyHeader = ResolvedKey

\* C7, amended: a hueRequest request carries the hue-application-key header
\* with the resolved application key unless its path starts with /api (the
\* pairing endpoint, with any method, and every path below it), and then it
\* carries no such header; a request to a /clip/v2/resource path always
\* carries it; the pairing request sent by authenticate is POST /api without
\* the header.
C7_KeyHeaderUnlessApiPrefix ==
    /\ req.via = "hueRequest" =>
          /\ Truthy(ResolvedKey)
          /\ IF StartsWith(req.path, <<"/api">>)
             THEN req.keyHeader = NoVal
             ELSE req.keyHeader = ResolvedKey
          /\ StartsWith(req.path, <<"/clip", "/v2", "/resource">>) =>
                req.keyHeader = ResolvedKey
    /\ req.via = "authenticate" =>
          req.method = "POST" /\ req.path = <<"/api">> /\ req.keyHeader = NoVal

\* C7 witness: hueRequest sent POST /api, without the header.
C7_Witness ==
    /\ req.via = "hueRequest"
    /\ req.method = "POST"
    /\ req.path = <<"/api">>
    /\ req.keyHeader = NoVal
    /\ sock = "open"

Configured == getCredentials(prefs, file).tag = "creds"

\* C8: with a bridge configured, setLightBrightness(b) and
\* setRoomBrightness(b) send a PUT whose brightness is max(1, min(100, b)):
\* always in [1,100], b itself when b is in range, and the call is never
\* refused for its input.
C8_BrightnessClamped ==
    Configured /\ call.fn \in {"setLightBrightness", "setRoomBrightness"} =>
        /\ req.via = "hueRequest"
        /\ req.method = "PUT"
        /\ req.body.field = "dimming.brightness"
        /\ req.body.n = Max(1, Min(100, call.input))
        /\ req.body.n \in 1..100
        /\ call.input \in 1..100 => req.body.n = call.input
        /\ result.error \notin {"NotConfigured", "TypeError"}

\* C8 witness: setRoomBrightness(0) sent brightness 1.
C8_Witness ==
    /\ call.fn = "setRoomBrightness"
    /\ call.input = 0
    /\ req.method = "PUT"
    /\ req.body.n = 1

\* C9: with a bridge configured, setLightColorTemperature(m) sends a PUT
\* whose mirek is max(153, min(500, m)): always in [153,500], m itself when m
\* is in range, and the call is never refused for its input.
C9_MirekClamped ==
    Configured /\ call.fn = "setLightColorTemperature" =>
        /\ req.via = "hueRequest"
        /\ req.method = "PUT"
        /\ req.body.field = "color_temperature.mirek"
        /\ req.body.n = Max(153, Min(500, call.input))
        /\ req.body.n \in 153..500
        /\ call.input \in 153..500 => req.body.n = call.input
        /\ result.error \notin {"NotConfigured", "TypeError"}

\* C9 witness: setLightColorTemperature(600) sent mirek 500.
C9_Witness ==
    /\ call.fn = "setLightColorTemperature"
    /\ call.input = 600
    /\ req.method = "PUT"
    /\ req.body.n = 500

\* the bridge answered a get call with a payload that has a `data` array
GetAnswered ==
    /\ call.shape = "get"
    /\ promise.state = "fulfilled"
    /\ promise.value.kind = "object"
    /\ promise.value.hasData

\* C10: for each resource kind (light, room, grouped light, scene on the
\* generated client, scene on hueGet), get(id) returns the first element of
\* the response's `data` array when it has one, and null, without an error,
\* when the array is empty.
C10_GetFirstOrNull ==
    GetAnswered =>
        /\ result.tag = "ok"
        /\ Len(promise.value.data) > 0 => result.item = promise.value.data[1]
        /\ Len(promise.value.data) = 0 => result.item = Null

\* C10 witness: getGroupedLight got an empty `data` array and returned null.
C10_Witness ==
    /\ call.fn = "getGroupedLight"
    /\ GetAnswered
    /\ promise.value.data = <<>>
    /\ result = ReturnItem(Null)

\* authenticate resolved with the first element of the pairing response
PairingAnswered ==
    /\ call.fn = "authenticate"
    /\ result.tag = "ok"

\* C11: the pairing response authenticate resolves with is classified as
\* link-button-not-pressed exactly when the first element of the bridge's
\* answer carries an error of type 101; with an error of any other type it
\* is not so classified and getAuthError gives that error's description
\* unchanged; with `success` getApplicationKey gives its username.
C11_PairingClassified ==
    PairingAnswered =>
        LET first == res.body.items[1]
            response == result.auth
        IN  /\ isLinkButtonError(response) <=> first.errType = 101
            /\ first.errType \notin {0, 101} =>
                  /\ ~isLinkButtonError(response)
                  /\ getAuthError(response) = first.description
            /\ first.username # "" =>
                  getApplicationKey(response) = first.username

\* C11 witness: the bridge answered the pairing request with an error of
\* another type (1, "unauthorized user"); it is not taken for the link
\* button and its description comes back.
C11_Witness ==
    /\ PairingAnswered
    /\ res.body.items[1].errType = 1
    /\ ~isLinkButtonError(result.auth)
    /\ getAuthError(result.auth) = "unauthorized user"
    /\ getApplicationKey(result.auth) = Null

\* a scene that references no room
NoRoom(scene) == ~scene.group \/ ~Truthy(scene.rid)

\* the ids of the scenes in bucket k, in the bucket's order
BucketIds(k) == [i \in 1..Len(grouped.buckets[k]) |-> grouped.buckets[k][i].id]

\* C12: groupScenesByRoom partitions its input: every input scene is in
\* exactly one bucket, a scene that references a room is in the bucket keyed
\* by that room's id, a scene without a room reference is in the bucket
\* "unassigned", and each bucket keeps the input order.
C12_Partition ==
    grouped.tag # "none" =>
        /\ grouped.tag = "ok"
        /\ \A i \in 1..Len(scenes) :
              LET key == IF NoRoom(scenes[i]) THEN "unassigned" ELSE scenes[i].rid
              IN  /\ key \in grouped.keys
                  /\ \E j \in 1..Len(grouped.buckets[key]) :
                        grouped.buckets[key][j] = scenes[i]
                  /\ \A k \in MapKeys \ {key} :
                        \A j \in 1..Len(grouped.buckets[k]) :
                            grouped.buckets[k][j] # scenes[i]
        /\ \A k \in MapKeys :
              \A i, j \in 1..Len(grouped.buckets[k]) :
                  i < j => BucketIds(k)[i] < BucketIds(k)[j]

\* C13: under any interleaving of accessor calls, each lazily memoized
\* handle (fetch adapter, light, room, grouped-light and scene API) is built
\* at most once, and once it holds an instance it is never assigned again.
C13_BuiltOnce ==
    [][\A h \in Handles :
          /\ instances'[h].built <= 1
          /\ instances[h].stored # 0 => instances'[h].stored = instances[h].stored]_vars

\* C14: no automatic retry: one call of an accessor, of hueRequest or of
\* authenticate sends at most one request to the bridge, and once its
\* request has failed (the promise is rejected) the same call sends no other.
C14_NoRetry ==
    [][/\ sent' <= 1
       /\ (promise.state = "rejected" /\ call' = call) => sent' = sent]_vars

\* C14 witness: setLightBrightness sent its one request, the connection
\* failed, the accessor threw, and nothing else was sent.
C14_Witness ==
    /\ call.fn = "setLightBrightness"
    /\ promise.state = "rejected"
    /\ promise.kind = "Connection"
    /\ result.tag = "throw"
    /\ sock = "closed"
    /\ sent = 1

\* the call p took a step out of the await it stood at
Resumed(p, pc) == procs[p].pc = pc /\ procs'[p].pc # pc

\* C15: an accessor call that has to construct its API handle and finds no
\* credentials fails with the not-configured error, has sent no request, and
\* leaves the handle as it was (unset stays unset): the failure is not
\* memoized.  With credentials the same step constructs the handle, and the
\* call goes on to send its request.
C15_NotConfiguredNotMemoized ==
    [][\A p \in Procs :
          LET h == procs[p].handle
              configured == getCredentials(prefs, file).tag = "creds"
          IN  /\ (Resumed(p, "getFetchAdapter") /\ ~configured) =>
                    /\ procs'[p].pc = "done"
                    /\ procs'[p].outcome = "NotConfigured"
                    /\ procs'[p].requests = 0
                    /\ instances'[h] = instances[h]
              /\ (Resumed(p, "getFetchAdapter") /\ configured) =>
                    /\ procs'[p].pc \in {"request", "getConfig"}
                    /\ procs'[p].pc = "request" => instances'[h].stored # 0
              /\ Resumed(p, "getConfig") =>
                    /\ procs'[p].pc = "request"
                    /\ instances'[h].stored # 0
              /\ (Resumed(p, "request") /\ configured) =>
                    /\ procs'[p].pc = "response"
                    /\ procs'[p].requests = 1
              /\ procs'[p].outcome = "NotConfigured" => procs'[p].requests = 0]_vars

\* C15 witness: getLights failed as not configured and left lightApiInstance
\* unset; the preferences were then filled in, and a second getLights built
\* the instance and sent its request.
C15_Witness ==
    /\ procs[1] = ProcOf("done", "light", 0, 0, "NotConfigured")
    /\ procs[2] = ProcOf("response", "light", 0, 1, "")
    /\ instances["light"] = [stored |-> 1, built |-> 1]
    /\ getCredentials(prefs, file).tag = "creds"

\* the handler has shown a notification of this style
Shown(style) == \E i \in 1..Len(ui.toasts) : ui.toasts[i] = style

\* the mutation failed: its request's promise was rejected, or the accessor
\* threw
MutationFailed == promise.state = "rejected" \/ result.tag = "throw"

\* C16: in a light action handler the list is re-fetched only after the
\* mutation has succeeded and after the success notification; when the
\* mutation fails a failure notification is shown and nothing is re-fetched;
\* a failure notification is shown only after a failed step; a failed
\* mutation never gives a success notification.
C16_NotifyThenRefetch ==
    /\ ui.refetches > 0 => ~MutationFailed /\ Shown("Success")
    /\ (MutationFailed /\ ui.pc = "done") =>
          Shown("Failure") /\ ui.refetches = 0
    /\ Shown("Failure") => MutationFailed \/ ui.failed = "revalidate"
    /\ MutationFailed => ~Shown("Success")

=============================================================================
